---- MODULE Spec2Model ----
(***************************************************************************)
(* Model of src/app.py: SecurityManager, TokenManager, TradingManager and  *)
(* the handlers of SolanaTelegramBot.                                      *)
(*                                                                         *)
(* SpecTrade runs concurrent TradingManager.execute_trade coroutines, one  *)
(* action per statement between two suspension points.  SpecBot runs the   *)
(* chat handlers (createwallet, list, inline-keyboard callbacks) and       *)
(* TokenManager.add_token; a handler has no suspension point before its    *)
(* reply, so each is one action.                                           *)
(*                                                                         *)
(* The methods are modelled as the units a caller can invoke.  Library     *)
(* calls that can fail (HTTP, JSON decoding, deserialize, signing, RPC)    *)
(* either succeed or raise.  Redis hashes are read back under the field    *)
(* names they were written with, and KEYS lists a wallet's tokens by       *)
(* address.                                                                *)
(***************************************************************************)
EXTENDS Integers, Sequences, FiniteSets, TLC

VARIABLES pc, quote, wallet, anti_mev, delay, swap_tx, transaction, signed_tx,
          result, steps, posts, sent, tm,
          redis, keyboard, last

tradeVars == <<pc, quote, wallet, anti_mev, delay, swap_tx, transaction,
               signed_tx, result, steps, posts, sent, tm>>
botVars == <<redis, keyboard, last>>
vars == <<pc, quote, wallet, anti_mev, delay, swap_tx, transaction, signed_tx,
          result, steps, posts, sent, tm, redis, keyboard, last>>

(* ------------------------------ bounds --------------------------------- *)
MaxReq == 2

Req == 1..MaxReq

(* ------------------------- values and helpers -------------------------- *)
Null == [kind |-> "none"]

Raise(exc, at) == [kind |-> "raise", exc |-> exc, at |-> at]

Return(v) == [kind |-> "return", value |-> v]

Contains(s, x) == \E i \in 1..Len(s) : s[i] = x

IndexOf(s, x) == IF Contains(s, x) THEN CHOOSE i \in 1..Len(s) : s[i] = x ELSE 0

(* names bound in the module namespace by the import statements *)
ModuleNames ==
    {"asyncio", "base64", "json", "Dict", "List", "Optional", "datetime",
     "aiohttp", "Fernet", "AsyncClient", "Keypair", "Transaction",
     "TransactionInstruction", "Update", "InlineKeyboardButton",
     "InlineKeyboardMarkup", "Application", "CommandHandler",
     "CallbackContext", "CallbackQueryHandler", "Redis"}

(* random.uniform(0.1, 2.0), in tenths of a second *)
DelayMin == 1
DelayMax == 20
Delays == {DelayMin, 10, DelayMax}

SlippageBps == 50

(* Keypair(): public_key and the plaintext secret_key bytes *)
Keypair(i) == [public_key |-> 100 + i, secret_key |-> <<i, i + 1>>]

Keypairs == {Keypair(1), Keypair(2)}

(* the quote dict the caller obtained from get_quote: the request parameters
   echoed by the aggregator *)
get_quote(input_mint, output_mint, amount) ==
    [inputMint |-> input_mint, outputMint |-> output_mint,
     amount |-> amount, slippageBps |-> SlippageBps]

(* the amounts traded, in the smallest unit of the input mint *)
Amounts == {1000000, 2000000}

Quotes == {get_quote("A", "B", a) : a \in Amounts}

(* ------------------------- SecurityManager ----------------------------- *)
MasterKey == 7

FernetMac(ct) == (Len(ct) + MasterKey) % 256

encrypt_private_key(private_key) ==
    [version |-> 128,
     ciphertext |-> [i \in 1..Len(private_key) |-> (private_key[i] + MasterKey) % 256],
     hmac |-> FernetMac(private_key)]

decrypt_private_key(encrypted_key) ==
    IF encrypted_key.version = 128 /\ encrypted_key.hmac = FernetMac(encrypted_key.ciphertext)
    THEN Return([i \in 1..Len(encrypted_key.ciphertext) |->
                    (encrypted_key.ciphertext[i] + 256 - MasterKey) % 256])
    ELSE Raise("InvalidToken", "decrypt")

(* --------------------- aggregator and chain client --------------------- *)
(* an unsigned transaction built by the aggregator for a posted quote; the
   recent-blockhash anchor is fresh for every POST (named by the poster) *)
UnsignedTx(q, r) == [kind |-> "tx", quote |-> q, blockhash |-> r]

B64Encode(payload) == [b64 |-> TRUE, payload |-> payload]

NotBase64 == [b64 |-> FALSE, payload |-> Null]

(* JSON bodies POST /swap can answer with for the quote posted by r *)
SwapBodies(q, r) ==
    {[has |-> TRUE, swapTransaction |-> B64Encode(UnsignedTx(q, r))],
     [has |-> TRUE, swapTransaction |-> B64Encode([kind |-> "garbage"])],
     [has |-> TRUE, swapTransaction |-> NotBase64],
     [has |-> FALSE, error |-> "quote expired"]}

(* wallet.sign_transaction(transaction) *)
sign_transaction(w, t) ==
    [kind |-> "signed", message |-> t, signer |-> w.public_key,
     signature |-> <<w.secret_key, t.blockhash>>]

(* signed_tx.serialize(): the wire bytes *)
serialize(s) ==
    <<s.message.quote.amount, s.message.blockhash, s.signer, s.signature>>

TxId(bytes) == <<"sig", bytes[2], bytes[3]>>


(* ------------------------------ strings -------------------------------- *)
(* a str is the sequence of its characters *)
S_list == <<"l", "i", "s", "t">>

S_value == <<"v", "a", "l", "u", "e">>

S_date == <<"d", "a", "t", "e">>

DigitChars == <<"0", "1", "2", "3", "4", "5", "6", "7", "8", "9">>

IsDigit(c) == \E d \in 1..10 : DigitChars[d] = c

DigitVal(c) == (CHOOSE d \in 1..10 : DigitChars[d] = c) - 1

RECURSIVE NatToStr(_)
NatToStr(n) ==
    IF n < 10 THEN <<DigitChars[n + 1]>>
    ELSE NatToStr(n \div 10) \o <<DigitChars[(n % 10) + 1]>>

(* f"{n}" for an int *)
IntToStr(n) == IF n < 0 THEN <<"-">> \o NatToStr(0 - n) ELSE NatToStr(n)

RECURSIVE DigitsToNat(_)
DigitsToNat(s) ==
    IF s = <<>> THEN 0
    ELSE 10 * DigitsToNat(SubSeq(s, 1, Len(s) - 1)) + DigitVal(s[Len(s)])

IntV(n) == [t |-> "int", v |-> n]

StrV(s) == [t |-> "str", v |-> s]

(* int(s) *)
ParseInt(s) ==
    LET neg == s # <<>> /\ s[1] = "-"
        body == IF neg THEN Tail(s) ELSE s
    IN  IF body # <<>> /\ \A i \in 1..Len(body) : IsDigit(body[i])
        THEN Return(IF neg THEN 0 - DigitsToNat(body) ELSE DigitsToNat(body))
        ELSE Raise("ValueError", "int")

(* s.split(sep) *)
RECURSIVE Split(_, _)
Split(s, sep) ==
    IF ~Contains(s, sep) THEN <<s>>
    ELSE LET i == IndexOf(s, sep)
         IN  <<SubSeq(s, 1, i - 1)>> \o Split(SubSeq(s, i + 1, Len(s)), sep)

(* f"list_{page}_{sort_by}" *)
CallbackData(page, sort_by) ==
    S_list \o <<"_">> \o IntToStr(page) \o <<"_">> \o sort_by

(* ---------------------------- TokenManager ----------------------------- *)
NumUsers == 2

Users == 1..NumUsers

tokens_per_page == 20

(* the hash stored for token i of a wallet *)
TokenData(i) == [symbol |-> i, value |-> (i * 7) % 43, purchase_date |-> i]

TokenKey(wallet_id, token_address) == <<"tokens", wallet_id, token_address>>

(* a store in which wallet 1 holds tokens 1..n *)
Store(n) == [k \in {TokenKey(1, a) : a \in 1..n} |-> TokenData(k[3])]

StoreSizes == {0, tokens_per_page + 1}

AddAddrs == {1, 99}

AddDatas == {[TokenData(3) EXCEPT !.value = 50]}

(* redis.hmset(key, mapping): sets the given fields of the hash at key *)
hmset(store, key, mapping) ==
    LET old == IF key \in DOMAIN store THEN store[key] ELSE <<>>
        new == [f \in DOMAIN old \cup DOMAIN mapping |->
                   IF f \in DOMAIN mapping THEN mapping[f] ELSE old[f]]
    IN  [k \in DOMAIN store \cup {key} |-> IF k = key THEN new ELSE store[k]]

RECURSIVE SetToSeq(_)
SetToSeq(S) ==
    IF S = {} THEN <<>>
    ELSE LET m == CHOOSE x \in S : \A y \in S : x <= y
         IN  <<m>> \o SetToSeq(S \ {m})

(* redis.keys(f"tokens:{wallet_id}:*"), listed by token address *)
keys(store, wallet_id) ==
    LET addrs == {k[3] : k \in {k \in DOMAIN store : k[2] = wallet_id}}
        order == SetToSeq(addrs)
    IN  [i \in 1..Len(order) |-> TokenKey(wallet_id, order[i])]

(* x.get(field, 0) *)
Get(x, field) == IF field \in DOMAIN x THEN x[field] ELSE 0

RECURSIVE InsertDesc(_, _, _)
InsertDesc(x, s, field) ==
    IF s = <<>> THEN <<x>>
    ELSE IF Get(s[1], field) <= Get(x, field) THEN <<x>> \o s
    ELSE <<s[1]>> \o InsertDesc(x, Tail(s), field)

(* tokens.sort(key=..., reverse=True): descending, equal keys keep their
   order *)
RECURSIVE SortDesc(_, _)
SortDesc(s, field) ==
    IF s = <<>> THEN <<>>
    ELSE InsertDesc(s[1], SortDesc(Tail(s), field), field)

(* s[start:end] of a Python list *)
Slice(s, start, end) ==
    LET n == Len(s)
        Clamp(i) == IF i < 0 THEN (IF i + n < 0 THEN 0 ELSE i + n)
                    ELSE (IF i > n THEN n ELSE i)
        a == Clamp(start)
        b == Clamp(end)
    IN  IF a < b THEN SubSeq(s, a + 1, b) ELSE <<>>

get_tokens(store, wallet_id, page, sort_by) ==
    IF page.t # "int" THEN Raise("TypeError", "get_tokens")
    ELSE LET start == (page.v - 1) * tokens_per_page
             end == start + tokens_per_page
             token_keys == keys(store, wallet_id)
             tokens == [i \in 1..Len(token_keys) |-> store[token_keys[i]]]
             sorted == IF sort_by = S_value THEN SortDesc(tokens, "value")
                       ELSE IF sort_by = S_date THEN SortDesc(tokens, "purchase_date")
                       ELSE tokens
         IN  Return(Slice(sorted, start, end))

NoneV == [t |-> "none", v |-> 0]

ListV(l) == [t |-> "list", v |-> l]

(* context.args of the commands the model sends: /list, /list 2,
   /list 1 date *)
ListArgs == {<<>>, <<<<"2">>>>, <<<<"1">>, S_date>>}

(* what a handler run did: the get_tokens calls it made, what the last one
   returned, the reply it sent, the exception that left it *)
Outcome(handler, user, input, calls, returned, reply, exc) ==
    [handler |-> handler, user |-> user, input |-> input, calls |-> calls,
     returned |-> returned, reply |-> reply, exc |-> exc]

(* no handler has run yet *)
NoOutcome == Outcome("none", 0, <<>>, <<>>, Null, Null, Null)

(* ------------------------------- Init ---------------------------------- *)
InitTrade ==
    /\ pc = [r \in Req |-> "idle"]
    /\ quote = [r \in Req |-> Null]
    /\ wallet = [r \in Req |-> Null]
    /\ anti_mev = [r \in Req |-> FALSE]
    /\ delay = [r \in Req |-> Null]
    /\ swap_tx = [r \in Req |-> Null]
    /\ transaction = [r \in Req |-> Null]
    /\ signed_tx = [r \in Req |-> Null]
    /\ result = [r \in Req |-> Null]
    /\ steps = [r \in Req |-> <<>>]
    /\ posts = [r \in Req |-> <<>>]
    /\ sent = [r \in Req |-> <<>>]
    /\ tm = [client |-> "rpc_url", jupiter_api |-> "https://quote-api.jup.ag/v6"]

InitBot ==
    /\ redis \in {Store(n) : n \in StoreSizes}
    /\ keyboard = {}
    /\ last = NoOutcome

Init == InitTrade /\ InitBot

(* the trading manager alone, beside an empty bot *)
InitTradeOnly ==
    /\ InitTrade
    /\ redis = Store(0)
    /\ keyboard = {}
    /\ last = NoOutcome

(* -------------------- TradingManager.execute_trade --------------------- *)
(* the coroutine fails: the exception leaves execute_trade *)
Fail(r, exc) ==
    /\ result' = [result EXCEPT ![r] = Raise(exc, pc[r])]
    /\ pc' = [pc EXCEPT ![r] = "done"]

(* execute_trade(quote, wallet, anti_mev) is called *)
Call(r) ==
    /\ pc[r] = "idle"
    /\ \E q \in Quotes, w \in Keypairs, am \in BOOLEAN :
          /\ quote' = [quote EXCEPT ![r] = q]
          /\ wallet' = [wallet EXCEPT ![r] = w]
          /\ anti_mev' = [anti_mev EXCEPT ![r] = am]
          /\ pc' = [pc EXCEPT ![r] = IF am THEN "delay" ELSE "post"]
    /\ UNCHANGED <<delay, swap_tx, transaction, signed_tx, result, steps,
                   posts, sent, tm>>
    /\ UNCHANGED botVars

(* if anti_mev: delay = random.uniform(0.1, 2.0); await asyncio.sleep(delay) *)
Delay(r) ==
    /\ pc[r] = "delay"
    /\ IF "random" \in ModuleNames
       THEN \E d \in Delays :
              /\ delay' = [delay EXCEPT ![r] = [kind |-> "delay", tenths |-> d]]
              /\ steps' = [steps EXCEPT ![r] = Append(@, "delay")]
              /\ pc' = [pc EXCEPT ![r] = "post"]
              /\ UNCHANGED result
       ELSE /\ Fail(r, "NameError")
            /\ UNCHANGED <<delay, steps>>
    /\ UNCHANGED <<quote, wallet, anti_mev, swap_tx, transaction, signed_tx,
                   posts, sent, tm>>
    /\ UNCHANGED botVars

(* PostSwap, but a response already obtained for the same quote is reused
   instead of asking the aggregator again *)
PostSwapCached(r) ==
    /\ pc[r] = "post"
    /\ IF \E r2 \in Req : r2 # r /\ quote[r2] = quote[r] /\ swap_tx[r2] # Null
       THEN \E r2 \in Req :
              /\ r2 # r /\ quote[r2] = quote[r] /\ swap_tx[r2] # Null
              /\ swap_tx' = [swap_tx EXCEPT ![r] = swap_tx[r2]]
              /\ steps' = [steps EXCEPT ![r] = Append(@, "build")]
              /\ pc' = [pc EXCEPT ![r] = "deser"]
              /\ UNCHANGED posts
       ELSE /\ posts' = [posts EXCEPT ![r] = Append(@, quote[r])]
            /\ pc' = [pc EXCEPT ![r] = "post_wait"]
            /\ UNCHANGED <<swap_tx, steps>>
    /\ UNCHANGED <<quote, wallet, anti_mev, delay, transaction,
                   signed_tx, result, sent, tm>>
    /\ UNCHANGED botVars

(* session.post(f"{self.jupiter_api}/swap", json=quote): the request leaves *)
PostSwap(r) ==
    /\ pc[r] = "post"
    /\ posts' = [posts EXCEPT ![r] = Append(@, quote[r])]
    /\ pc' = [pc EXCEPT ![r] = "post_wait"]
    /\ UNCHANGED <<quote, wallet, anti_mev, delay, swap_tx, transaction,
                   signed_tx, result, steps, sent, tm>>
    /\ UNCHANGED botVars

(* the response headers arrive, or the connection fails *)
PostResponse(r) ==
    /\ pc[r] = "post_wait"
    /\ \/ /\ pc' = [pc EXCEPT ![r] = "json_wait"]
          /\ UNCHANGED result
       \/ Fail(r, "ClientError")
    /\ UNCHANGED <<quote, wallet, anti_mev, delay, swap_tx, transaction,
                   signed_tx, steps, posts, sent, tm>>
    /\ UNCHANGED botVars

(* swap_tx = await response.json() *)
ReadJson(r) ==
    /\ pc[r] = "json_wait"
    /\ \/ \E body \in SwapBodies(posts[r][Len(posts[r])], r) :
             /\ swap_tx' = [swap_tx EXCEPT ![r] = body]
             /\ steps' = [steps EXCEPT ![r] = Append(@, "build")]
             /\ pc' = [pc EXCEPT ![r] = "deser"]
             /\ UNCHANGED result
       \/ /\ Fail(r, "ContentTypeError")
          /\ UNCHANGED <<swap_tx, steps>>
    /\ UNCHANGED <<quote, wallet, anti_mev, delay, transaction, signed_tx,
                   posts, sent, tm>>
    /\ UNCHANGED botVars

(* Transaction.deserialize(base64.b64decode(swap_tx['swapTransaction'])) *)
Deserialize(r) ==
    /\ pc[r] = "deser"
    /\ IF ~swap_tx[r].has
       THEN Fail(r, "KeyError") /\ UNCHANGED <<transaction, steps>>
       ELSE IF ~swap_tx[r].swapTransaction.b64
       THEN Fail(r, "binascii.Error") /\ UNCHANGED <<transaction, steps>>
       ELSE IF swap_tx[r].swapTransaction.payload.kind # "tx"
       THEN Fail(r, "ValueError") /\ UNCHANGED <<transaction, steps>>
       ELSE /\ transaction' = [transaction EXCEPT ![r] = swap_tx[r].swapTransaction.payload]
            /\ steps' = [steps EXCEPT ![r] = Append(@, "deserialize")]
            /\ pc' = [pc EXCEPT ![r] = "sign"]
            /\ UNCHANGED result
    /\ UNCHANGED <<quote, wallet, anti_mev, delay, swap_tx, signed_tx, posts,
                   sent, tm>>
    /\ UNCHANGED botVars

(* Sign, but a failed signing still hands bytes to the chain client *)
SignLeaky(r) ==
    /\ pc[r] = "sign"
    /\ \/ /\ signed_tx' = [signed_tx EXCEPT ![r] = sign_transaction(wallet[r], transaction[r])]
          /\ steps' = [steps EXCEPT ![r] = Append(@, "sign")]
          /\ pc' = [pc EXCEPT ![r] = "send"]
          /\ UNCHANGED <<result, sent>>
       \/ /\ Fail(r, "SignError")
          /\ sent' = [sent EXCEPT ![r] =
                         Append(@, serialize(sign_transaction(wallet[r], transaction[r])))]
          /\ UNCHANGED <<signed_tx, steps>>
    /\ UNCHANGED <<quote, wallet, anti_mev, delay, swap_tx, transaction, posts, tm>>
    /\ UNCHANGED botVars

(* Sign, but with a wallet kept on the manager: whichever call set it last *)
SignShared(r) ==
    /\ pc[r] = "sign"
    /\ \/ \E r2 \in Req :
             /\ wallet[r2] # Null
             /\ signed_tx' = [signed_tx EXCEPT ![r] = sign_transaction(wallet[r2], transaction[r])]
             /\ steps' = [steps EXCEPT ![r] = Append(@, "sign")]
             /\ pc' = [pc EXCEPT ![r] = "send"]
             /\ UNCHANGED result
       \/ /\ Fail(r, "SignError")
          /\ UNCHANGED <<signed_tx, steps>>
    /\ UNCHANGED <<quote, wallet, anti_mev, delay, swap_tx, transaction, posts,
                   sent, tm>>
    /\ UNCHANGED botVars

(* signed_tx = wallet.sign_transaction(transaction) *)
Sign(r) ==
    /\ pc[r] = "sign"
    /\ \/ /\ signed_tx' = [signed_tx EXCEPT ![r] = sign_transaction(wallet[r], transaction[r])]
          /\ steps' = [steps EXCEPT ![r] = Append(@, "sign")]
          /\ pc' = [pc EXCEPT ![r] = "send"]
          /\ UNCHANGED result
       \/ /\ Fail(r, "SignError")
          /\ UNCHANGED <<signed_tx, steps>>
    /\ UNCHANGED <<quote, wallet, anti_mev, delay, swap_tx, transaction, posts,
                   sent, tm>>
    /\ UNCHANGED botVars

(* self.client.send_raw_transaction(signed_tx.serialize()) is invoked *)
Send(r) ==
    /\ pc[r] = "send"
    /\ sent' = [sent EXCEPT ![r] = Append(@, serialize(signed_tx[r]))]
    /\ steps' = [steps EXCEPT ![r] = Append(@, "broadcast")]
    /\ pc' = [pc EXCEPT ![r] = "send_wait"]
    /\ UNCHANGED <<quote, wallet, anti_mev, delay, swap_tx, transaction,
                   signed_tx, result, posts, tm>>
    /\ UNCHANGED botVars

(* return await ...: the RPC answers with the signature, or fails *)
SendResponse(r) ==
    /\ pc[r] = "send_wait"
    /\ \/ /\ result' = [result EXCEPT ![r] = Return(TxId(sent[r][Len(sent[r])]))]
          /\ pc' = [pc EXCEPT ![r] = "done"]
       \/ Fail(r, "RPCException")
    /\ UNCHANGED <<quote, wallet, anti_mev, delay, swap_tx, transaction,
                   signed_tx, steps, posts, sent, tm>>
    /\ UNCHANGED botVars

(* the points where the coroutine is suspended in an await *)
SuspensionPoints == {"post_wait", "json_wait", "send_wait"}

(* Cancel, but the CancelledError is swallowed and the coroutine goes on *)
CancelSwallowed(r) ==
    /\ pc[r] \in SuspensionPoints
    /\ result' = [result EXCEPT ![r] = Raise("CancelledError", pc[r])]
    /\ UNCHANGED <<pc, quote, wallet, anti_mev, delay, swap_tx, transaction,
                   signed_tx, steps, posts, sent, tm>>
    /\ UNCHANGED botVars

(* the caller cancels the task: CancelledError is raised at the await *)
Cancel(r) ==
    /\ pc[r] \in SuspensionPoints
    /\ Fail(r, "CancelledError")
    /\ UNCHANGED <<quote, wallet, anti_mev, delay, swap_tx, transaction,
                   signed_tx, steps, posts, sent, tm>>
    /\ UNCHANGED botVars

execute_trade(r) ==
    \/ Call(r)
    \/ Delay(r)
    \/ PostSwap(r)
    \/ PostResponse(r)
    \/ ReadJson(r)
    \/ Deserialize(r)
    \/ Sign(r)
    \/ Send(r)
    \/ SendResponse(r)
    \/ Cancel(r)

NextTrade == \E r \in Req : execute_trade(r)

SpecTrade == InitTradeOnly /\ [][NextTrade]_vars

(* -------------------------- SolanaTelegramBot -------------------------- *)
(* the four inline buttons under a token page *)
Keyboard(page, sort_by) ==
    <<CallbackData(page - 1, sort_by), CallbackData(page + 1, sort_by),
      CallbackData(page, S_value), CallbackData(page, S_date)>>

(* the body of list_tokens_command for user_id, given context.args *)
list_tokens(store, handler, user_id, input, args) ==
    LET page == IF args.t = "list" /\ args.v # <<>> THEN StrV(args.v[1]) ELSE IntV(1)
    IN  IF args.t # "list"
        THEN Outcome(handler, user_id, input, <<>>, Null, Null,
                     Raise("TypeError", "len"))
        ELSE LET sort_by == IF Len(args.v) > 1 THEN args.v[2] ELSE S_value
                 call == <<user_id, page, sort_by>>
                 tokens == get_tokens(store, user_id, page, sort_by)
             IN  IF tokens.kind = "raise"
                 THEN Outcome(handler, user_id, input, <<call>>, Null, Null, tokens)
                 ELSE IF tokens.value = <<>>
                 THEN Outcome(handler, user_id, input, <<call>>, tokens,
                              [text |-> "No tokens found."], Null)
                 ELSE IF handler = "callback"
                 THEN Outcome(handler, user_id, input, <<call>>, tokens, Null,
                              Raise("AttributeError", "update.message"))
                 ELSE Outcome(handler, user_id, input, <<call>>, tokens,
                              [text |-> "Your tokens:", tokens |-> tokens.value,
                               keyboard |-> Keyboard(page.v, sort_by)], Null)

(* the buttons a reply puts in front of its user *)
Shown(o) ==
    IF o.reply # Null /\ "keyboard" \in DOMAIN o.reply
    THEN {<<o.user, o.reply.keyboard[i]>> : i \in 1..Len(o.reply.keyboard)}
    ELSE {}

(* TokenManager.add_token *)
add_token(wallet_id, token_address, token_data) ==
    /\ redis' = hmset(redis, TokenKey(wallet_id, token_address), token_data)
    /\ UNCHANGED <<keyboard, last>>
    /\ UNCHANGED tradeVars

AddToken == \E w \in Users, a \in AddAddrs, d \in AddDatas : add_token(w, a, d)

(* /createwallet *)
create_wallet_command(user_id) ==
    \E keypair \in Keypairs :
       LET encrypted_private_key == encrypt_private_key(keypair.secret_key)
           wallet_data == [public_key |-> keypair.public_key,
                           private_key |-> encrypted_private_key]
       IN  /\ last' = Outcome("createwallet", user_id, <<>>, <<>>, Null,
                              [text |-> "Wallet created!",
                               public_key |-> keypair.public_key], Null)
           /\ UNCHANGED <<redis, keyboard>>
           /\ UNCHANGED tradeVars

CreateWallet == \E u \in Users : create_wallet_command(u)

(* /list [page [sort_by]] *)
list_tokens_command(user_id, args) ==
    LET o == list_tokens(redis, "list", user_id, args, ListV(args))
    IN  /\ last' = o
        /\ keyboard' = keyboard \cup Shown(o)
        /\ UNCHANGED redis
        /\ UNCHANGED tradeVars

ListTokens == \E u \in Users, args \in ListArgs : list_tokens_command(u, args)

(* a press on an inline button: update.callback_query.data = data; a
   callback query carries no command arguments, context.args is None *)
handle_callback(user_id, data) ==
    LET parts == Split(data, "_")
        o == IF parts[1] # S_list
             THEN Outcome("callback", user_id, data, <<>>, Null, Null, Null)
             ELSE IF Len(parts) < 2
             THEN Outcome("callback", user_id, data, <<>>, Null, Null,
                          Raise("IndexError", "data[1]"))
             ELSE IF ParseInt(parts[2]).kind = "raise"
             THEN Outcome("callback", user_id, data, <<>>, Null, Null,
                          ParseInt(parts[2]))
             ELSE IF Len(parts) < 3
             THEN Outcome("callback", user_id, data, <<>>, Null, Null,
                          Raise("IndexError", "data[2]"))
             ELSE list_tokens(redis, "callback", user_id, data, NoneV)
    IN  /\ last' = o
        /\ keyboard' = keyboard \cup Shown(o)
        /\ UNCHANGED redis
        /\ UNCHANGED tradeVars

HandleCallback == \E b \in keyboard : handle_callback(b[1], b[2])

NextBot ==
    \/ AddToken
    \/ CreateWallet
    \/ ListTokens
    \/ HandleCallback

SpecBot == Init /\ [][NextBot]_vars

(* ============================== claims ================================= *)
IsPrefix(a, b) == Len(a) <= Len(b) /\ SubSeq(b, 1, Len(a)) = a

StepOrder(r) ==
    IF anti_mev[r]
    THEN <<"delay", "build", "deserialize", "sign", "broadcast">>
    ELSE <<"build", "deserialize", "sign", "broadcast">>

BeforeBroadcast == {"delay", "post", "post_wait", "json_wait", "deser", "sign"}

RaisedAt(r, places) ==
    result[r].kind = "raise" /\ result[r].at \in places

(* C1: the steps of a request happen in the order delay (if enabled), build,
   deserialize, sign, broadcast; send_raw_transaction is invoked at most
   once, only with the bytes of that request's completed signature, and not
   at all by a request that failed before the broadcast. *)
C1_StepOrder ==
    \A r \in Req :
       /\ IsPrefix(steps[r], StepOrder(r))
       /\ Len(sent[r]) <= 1
       /\ sent[r] # <<>> =>
             /\ Contains(steps[r], "build")
             /\ Contains(steps[r], "sign")
             /\ signed_tx[r] # Null
             /\ sent[r][1] = serialize(signed_tx[r])
       /\ RaisedAt(r, BeforeBroadcast) => sent[r] = <<>>

(* a request went through every step and returned the signature *)
C1_Witness ==
    \E r \in Req :
       /\ result[r].kind = "return"
       /\ steps[r] = <<"build", "deserialize", "sign", "broadcast">>
       /\ Len(sent[r]) = 1

(* C2: every finished execute_trade has returned a value; no exception has
   left it. *)
C2_NoExceptionEscapes ==
    \A r \in Req : pc[r] = "done" => result[r].kind = "return"

(* C3: when POST /swap answers without swapTransaction, the trade ends by
   returning Failed(QuoteExpired), and the key was not used to sign and
   nothing was sent. *)
C3_ExpiredQuoteFails ==
    \A r \in Req :
       (pc[r] = "done" /\ swap_tx[r] # Null /\ ~swap_tx[r].has) =>
          /\ signed_tx[r] = Null
          /\ sent[r] = <<>>
          /\ result[r] = Return([failed |-> "QuoteExpired"])

(* C4: with anti_mev a request gets past the delay step having slept for a
   duration in the configured range, before its POST; without anti_mev it has
   no delay step. *)
C4_DelayBeforeBuild ==
    \A r \in Req :
       /\ (anti_mev[r] /\ pc[r] \notin {"idle", "delay"}) =>
             /\ ~RaisedAt(r, {"delay"})
             /\ delay[r] # Null
             /\ delay[r].tenths \in DelayMin..DelayMax
             /\ steps[r] # <<>> /\ steps[r][1] = "delay"
       /\ ~anti_mev[r] => delay[r] = Null /\ ~Contains(steps[r], "delay")

(* C5: a request cancelled while suspended in the POST or in reading its
   response has sent nothing, and bytes have reached the chain client exactly
   when the broadcast step was taken. *)
C5_CancelBeforeBroadcast ==
    \A r \in Req :
       /\ (result[r].kind = "raise" /\ result[r].exc = "CancelledError"
             /\ result[r].at \in {"post_wait", "json_wait"}) =>
             sent[r] = <<>> /\ ~Contains(steps[r], "broadcast")
       /\ sent[r] # <<>> <=> Contains(steps[r], "broadcast")

(* a request was cancelled after its POST left and nothing was sent *)
C5_Witness ==
    \E r \in Req :
       /\ pc[r] = "done"
       /\ result[r] = Raise("CancelledError", "json_wait")
       /\ Len(posts[r]) = 1
       /\ sent[r] = <<>>

Locals(r) ==
    <<quote[r], wallet[r], anti_mev[r], delay[r], swap_tx[r], transaction[r],
      signed_tx[r], result[r], steps[r], posts[r], sent[r]>>

(* the locals of r's frame after the step *)
LocalsNext(r) ==
    <<quote'[r], wallet'[r], anti_mev'[r], delay'[r], swap_tx'[r],
      transaction'[r], signed_tx'[r], result'[r], steps'[r], posts'[r],
      sent'[r]>>

(* C6: under every interleaving, what a request broadcasts is the
   transaction built for its own quote signed with its own wallet; a step of
   one request leaves the locals of the others as they were; and a request
   that has not finished can always take its next step, whatever the others
   are doing. *)
C6_RequestLocal ==
    /\ [](\A r \in Req :
             /\ sent[r] # <<>> =>
                   sent[r][1] = serialize(sign_transaction(wallet[r],
                                                            UnsignedTx(quote[r], r)))
             /\ pc[r] # "done" => ENABLED execute_trade(r))
    /\ [][\A r \in Req : pc'[r] = pc[r] => LocalsNext(r) = Locals(r)]_vars

(* one request has broadcast while another one, for another wallet, is in
   the middle of its own build *)
C6_Witness ==
    \E r1, r2 \in Req :
       /\ wallet[r1] # Null /\ wallet[r2] # Null /\ wallet[r1] # wallet[r2]
       /\ sent[r1] # <<>>
       /\ pc[r2] = "json_wait"

(* C7: once the signing step of a request is over, the secret key bytes held
   for it have been overwritten. *)
C7_KeyZeroized ==
    \A r \in Req :
       (Contains(steps[r], "sign") \/ RaisedAt(r, {"sign"})) =>
          wallet[r].secret_key = [i \in 1..Len(wallet[r].secret_key) |-> 0]

(* C8: after create_wallet_command has replied, the store holds a record
   with the wallet's public key and its encrypted secret key. *)
C8_WalletRecordStored ==
    last.handler = "createwallet" =>
       \E k \in DOMAIN redis :
          /\ k[2] = last.user
          /\ "private_key" \in DOMAIN redis[k]
          /\ redis[k].public_key = last.reply.public_key
          /\ \E kp \in Keypairs :
                /\ kp.public_key = last.reply.public_key
                /\ redis[k].private_key # kp.secret_key
                /\ decrypt_private_key(redis[k].private_key) = Return(kp.secret_key)

(* C9: a request that got past the build posted exactly once, its own quote;
   the response it holds is the answer to that POST; the bytes it sent carry
   that response's transaction; two requests never send the same bytes; and
   the manager holds nothing but its client and the API address. *)
C9_FreshTransaction ==
    /\ DOMAIN tm = {"client", "jupiter_api"}
    /\ \A r \in Req :
          /\ Len(posts[r]) <= 1
          /\ Contains(steps[r], "build") => posts[r] = <<quote[r]>>
          /\ swap_tx[r] # Null => swap_tx[r] \in SwapBodies(quote[r], r)
          /\ sent[r] # <<>> =>
                /\ transaction[r] = UnsignedTx(posts[r][1], r)
                /\ sent[r][1] = serialize(sign_transaction(wallet[r], transaction[r]))
          /\ \A r2 \in Req \ {r} :
                (sent[r] # <<>> /\ sent[r2] # <<>>) => sent[r][1] # sent[r2][1]

(* the same quote submitted twice with the same wallet, both broadcast *)
C9_Witness ==
    \E r1, r2 \in Req :
       /\ r1 # r2
       /\ quote[r1] # Null /\ quote[r1] = quote[r2] /\ wallet[r1] = wallet[r2]
       /\ sent[r1] # <<>> /\ sent[r2] # <<>>
       /\ Len(posts[r1]) = 1 /\ Len(posts[r2]) = 1

(* C10: a handled callback list_<p2>_<s2> has called get_tokens once, with
   page p2 and sort key s2, and got the tokens at sorted positions
   (p2-1)*20 .. p2*20-1. *)
C10_CallbackFollowsButton ==
    (last.handler = "callback" /\ Split(last.input, "_")[1] = S_list) =>
       LET parts == Split(last.input, "_")
           p2 == ParseInt(parts[2]).value
           s2 == parts[3]
           all == SortDesc([i \in 1..Len(keys(redis, last.user)) |->
                               redis[keys(redis, last.user)[i]]],
                           IF s2 = S_value THEN "value" ELSE "purchase_date")
       IN  /\ last.calls = <<<<last.user, IntV(p2), s2>>>>
           /\ last.returned =
                 Return([i \in 1..(IF Len(all) >= p2 * tokens_per_page
                                   THEN tokens_per_page
                                   ELSE IF Len(all) > (p2 - 1) * tokens_per_page
                                   THEN Len(all) - (p2 - 1) * tokens_per_page
                                   ELSE 0) |->
                            all[(p2 - 1) * tokens_per_page + i]])

====
